---- MODULE Spec2Model ----
(***************************************************************************)
(* Note-taking web app: the notes page (main app module), the settings     *)
(* page, the UI module, the Appwrite wrapper, the note manager and the     *)
(* draft storage, as one state machine.                                    *)
(* The main app module is the one with the confirmation modal and the      *)
(* draft auto-save (src/unnamed/part_002), the settings page the one that  *)
(* checks the user (src/unnamed/part_006), the UI module scripts/ui.js.    *)
(*                                                                         *)
(* Strings are sequences of one-character strings, so that toLowerCase,    *)
(* includes, trim, split and join are computed as the code computes them.  *)
(* A note is a record [id, title, content, tags, archived]; createdAt and  *)
(* updatedAt are only displayed and are left out.  The remote collection   *)
(* is the sequence of documents in the order listDocuments returns them    *)
(* under Query.orderDesc("$createdAt"): newest first.                      *)
(*                                                                         *)
(* Every handler is one action.  An async handler is taken together with   *)
(* the resolution of the remote call it awaits (the outcome is an input of *)
(* the action): user actions are performed one at a time, each remote call *)
(* settling before the next user action starts.  A remote call that        *)
(* rejects leaves the remote collection unchanged.                         *)
(***************************************************************************)
EXTENDS Integers, Sequences, FiniteSets, TLC

\* ------------------------------------------------------------------ bounds
\* ID.unique() hands out fresh ids; creation is capped at this id.
MaxId == 3
\* Wall clock, in hours, is capped here.
MaxNow == 25
\* Largest remote collection SpecLoad starts from (more than Query.limit).
MaxRemote == 102

\* ------------------------------------------------------- program constants
\* Query.limit(100) in getAllNotes
QueryLimit == 100
\* restoreDraft: drafts older than 24 hours are dropped
DraftMaxHours == 24

\* ----------------------------------------------------------------- strings
Str_Archived == <<"A","r","c","h","i","v","e","d">>
Str_AllNotes == <<"A","l","l"," ","N","o","t","e","s">>
Str_ArchivedNotes == Str_Archived \o <<" ","N","o","t","e","s">>
Str_ShowingResultsFor ==
  <<"S","h","o","w","i","n","g"," ","r","e","s","u","l","t","s"," ","f","o","r",":"," ">>
Str_NotesTagged == <<"N","o","t","e","s"," ","T","a","g","g","e","d",":"," ">>
Str_UntitledNote == <<"U","n","t","i","t","l","e","d"," ","N","o","t","e">>
Str_SelectANote ==
  <<"S","e","l","e","c","t"," ","a"," ","n","o","t","e"," ","t","o"," ","v","i","e","w">>

UpperChars ==
  <<"A","B","C","D","E","F","G","H","I","J","K","L","M",
    "N","O","P","Q","R","S","T","U","V","W","X","Y","Z">>
LowerChars ==
  <<"a","b","c","d","e","f","g","h","i","j","k","l","m",
    "n","o","p","q","r","s","t","u","v","w","x","y","z">>

\* String.prototype.toLowerCase
ToLowerCase(s) ==
  [i \in 1..Len(s) |->
     IF \E k \in 1..Len(UpperChars) : UpperChars[k] = s[i]
     THEN LowerChars[CHOOSE k \in 1..Len(UpperChars) : UpperChars[k] = s[i]]
     ELSE s[i]]

\* String.prototype.includes
Includes(s, sub) ==
  \E i \in 0..(Len(s) - Len(sub)) : SubSeq(s, i + 1, i + Len(sub)) = sub

\* String.prototype.trim (the only white space of the model is the blank)
RECURSIVE TrimStart(_)
TrimStart(s) == IF s # <<>> /\ Head(s) = " " THEN TrimStart(Tail(s)) ELSE s
RECURSIVE TrimEnd(_)
TrimEnd(s) ==
  IF s # <<>> /\ s[Len(s)] = " " THEN TrimEnd(SubSeq(s, 1, Len(s) - 1)) ELSE s
Trim(s) == TrimEnd(TrimStart(s))

\* String.prototype.split(","): the pieces between the commas
RECURSIVE SplitComma(_)
SplitComma(s) ==
  IF \E i \in 1..Len(s) : s[i] = ","
  THEN LET k == CHOOSE i \in 1..Len(s) :
                  s[i] = "," /\ \A j \in 1..(i - 1) : s[j] # ","
       IN <<SubSeq(s, 1, k - 1)>> \o SplitComma(SubSeq(s, k + 1, Len(s)))
  ELSE <<s>>

\* Array.prototype.join(", ")
RECURSIVE JoinTags(_)
JoinTags(tags) ==
  IF tags = <<>> THEN <<>>
  ELSE IF Len(tags) = 1 THEN tags[1]
  ELSE tags[1] \o <<",", " ">> \o JoinTags(Tail(tags))

Range(seq) == {seq[i] : i \in 1..Len(seq)}
IdsOf(notes) == [i \in 1..Len(notes) |-> notes[i].id]

\* tagsText.split(",").map(t => t.trim()).filter(t => t)
ParseTags(text) ==
  LET pieces == SplitComma(text)
      trimmed == [i \in 1..Len(pieces) |-> Trim(pieces[i])]
      NonEmpty(t) == t # <<>>
  IN SelectSeq(trimmed, NonEmpty)

\* --------------------------------------------------------- noteManager.js
\* searchNotes(notes, query)
searchNotes(notes, query) ==
  IF query = <<>> THEN notes
  ELSE LET lowerQuery == ToLowerCase(query)
           Match(note) ==
             \/ Includes(ToLowerCase(note.title), lowerQuery)
             \/ Includes(ToLowerCase(note.content), lowerQuery)
             \/ \E i \in 1..Len(note.tags) :
                  Includes(ToLowerCase(note.tags[i]), lowerQuery)
       IN SelectSeq(notes, Match)

\* filterByTag(notes, tag)
filterByTag(notes, tag) ==
  LET HasTag(note) == \E i \in 1..Len(note.tags) : note.tags[i] = tag
  IN SelectSeq(notes, HasTag)

\* getAllTags(notes): the sorted array of the unique tags, kept as their set
getAllTags(notes) ==
  UNION {Range(notes[i].tags) : i \in 1..Len(notes)}

\* notes.filter((n) => n.archived) and notes.filter((n) => !n.archived)
IsArchived(n) == n.archived
NotArchived(n) == ~n.archived
Archived(notes) == SelectSeq(notes, IsArchived)
Active(notes) == SelectSeq(notes, NotArchived)

\* notesCache.find((n) => n.id === id); guarded by HasNote
HasNote(notes, id) == \E i \in 1..Len(notes) : notes[i].id = id
FindNote(notes, id) == notes[CHOOSE i \in 1..Len(notes) : notes[i].id = id]

\* ------------------------------------------------------------------ ui.js
\* renderAllNotes(notes): the ids of the cards written into #notes-list.
\* The function filters its argument once more, by the page title.
renderAllNotes(notes, title) ==
  LET isArchivePage == Includes(title, Str_Archived)
      filteredNotes == IF isArchivePage THEN Archived(notes) ELSE Active(notes)
  IN IdsOf(filteredNotes)

\* ------------------------------------------------------------ appwrite.js
\* getAllNotes(): the first QueryLimit documents, or [] when listDocuments
\* rejects (the catch block returns an empty array).
getAllNotes(docs, ok) ==
  IF ok
  THEN SubSeq(docs, 1, IF Len(docs) < QueryLimit THEN Len(docs) ELSE QueryLimit)
  ELSE <<>>

\* createNote(note): the document databases.createDocument stores
createNote(id, note) ==
  [id |-> id,
   title |-> IF note.title = <<>> THEN Str_UntitledNote ELSE note.title,
   content |-> note.content,
   tags |-> note.tags,
   archived |-> note.archived]

\* updateNote(noteId, updates) for a save: title, content and tags are sent
updateNote(docs, noteId, title, content, tags) ==
  [i \in 1..Len(docs) |->
     IF docs[i].id = noteId
     THEN [docs[i] EXCEPT !.title = title, !.content = content, !.tags = tags]
     ELSE docs[i]]

\* archiveNote(noteId, archived) == updateNote(noteId, { archived })
archiveNote(docs, noteId, archived) ==
  [i \in 1..Len(docs) |->
     IF docs[i].id = noteId THEN [docs[i] EXCEPT !.archived = archived]
     ELSE docs[i]]

\* deleteNote(noteId)
deleteNote(docs, noteId) ==
  LET Other(d) == d.id # noteId IN SelectSeq(docs, Other)

\* ------------------------------------------------------------------- state
VARIABLES
  remote,         \* the notes collection of the Appwrite database, newest first
  nextId,         \* the id ID.unique() hands out next
  session,        \* an Appwrite session of the user exists
  now,            \* wall clock, in hours
  draft,          \* sessionStorage["notes_app_draft"]: <<>> or <<draft>>
  page,           \* the document that is loaded: "index", "settings", "login"
  pc,             \* progress of the page's init(): "start", "checked", "ready", "redirected"
  href,           \* window.location.href assigned by the page ("" when none)
  currentUser,    \* "null" or "user"
  notesCache,     \* let notesCache = []
  currentView,    \* let currentView = "all-notes"
  modalCallback,  \* let modalCallback = null: <<>> or <<[kind, noteId]>>
  currentNoteId,  \* ui.js: let currentNoteId = null (0 stands for null)
  pageTitle,      \* #page-title textContent
  notesList,      \* #notes-list: the ids of the rendered cards
  sidebarTags,    \* #sidebar-tags: the rendered tag items
  noteTitle,      \* #note-title textContent
  noteContent,    \* #note-content value
  noteTags,       \* #note-tags value (hidden input)
  searchInput,    \* #search-input value
  toast,          \* the toast on screen: <<>> or <<[type, action]>>
  restoreTimer,   \* the setTimeout of restoreDraft: <<>> or <<draft>>
  fetched,        \* this page load has called getAllNotes
  rendered,       \* this page load has rendered notes or tags
  listeners,      \* this page load has run setupEventListeners
  lastCall        \* the remote call the last step made: <<>> or <<[op, noteId, archived, ok]>>

vars ==
  <<remote, nextId, session, now, draft, page, pc, href, currentUser, notesCache,
    currentView, modalCallback, currentNoteId, pageTitle, notesList, sidebarTags,
    noteTitle, noteContent, noteTags, searchInput, toast, restoreTimer,
    fetched, rendered, listeners, lastCall>>

backendVars == <<remote, nextId, session>>
domVars ==
  <<pageTitle, notesList, sidebarTags, noteTitle, noteContent, noteTags, searchInput>>
loadVars == <<fetched, rendered, listeners>>

\* ------------------------------------------------------------------ inputs
\* What the user types into the title, the content and the search box, and
\* the tags of the tags selector.
TitleTexts == {<<"b">>}
ContentTexts == {<<"a">>}
TagNames == {<<"x">>}
Queries == {<<>>, <<" ", "x">>, Str_Archived}
\* Hours that pass before a page is loaded
ElapsedHours == {0, DraftMaxHours, DraftMaxHours + 1}

\* The collections the backend may hold when the app is first opened
SeedNotes ==
  << [id |-> 2, title |-> <<"b">>, content |-> <<>>,
      tags |-> << <<"X">> >>, archived |-> TRUE],
     [id |-> 1, title |-> Str_Archived, content |-> <<"a", "B">>,
      tags |-> << <<"x">> >>, archived |-> FALSE] >>
InitialCollections == {SeedNotes}
\* The collection the editing runs start from
DraftSeed ==
  << [id |-> 1, title |-> Str_Archived, content |-> <<>>,
      tags |-> << <<"x">> >>, archived |-> FALSE] >>

\* A collection of n notes, for the page load on large collections
BigCollection(n) ==
  [i \in 1..n |->
     [id |-> n - i + 1, title |-> <<"b">>, content |-> <<>>,
      tags |-> <<>>, archived |-> FALSE]]

Call(op, noteId, archived, ok) ==
  <<[op |-> op, noteId |-> noteId, archived |-> archived, ok |-> ok]>>
Toast(type, action) == <<[type |-> type, action |-> action]>>

\* The state of a freshly loaded document: module-level lets and the DOM
FreshDocument ==
  /\ pc' = "start"
  /\ href' = ""
  /\ currentUser' = "null"
  /\ notesCache' = <<>>
  /\ currentView' = "all-notes"
  /\ modalCallback' = <<>>
  /\ currentNoteId' = 0
  /\ pageTitle' = Str_AllNotes
  /\ notesList' = <<>>
  /\ sidebarTags' = {}
  /\ noteTitle' = <<>>
  /\ noteContent' = <<>>
  /\ noteTags' = <<>>
  /\ searchInput' = <<>>
  /\ toast' = <<>>
  /\ restoreTimer' = <<>>
  /\ fetched' = FALSE
  /\ rendered' = FALSE
  /\ listeners' = FALSE
  /\ lastCall' = <<>>

InitDocument ==
  /\ pc = "start"
  /\ href = ""
  /\ currentUser = "null"
  /\ notesCache = <<>>
  /\ currentView = "all-notes"
  /\ modalCallback = <<>>
  /\ currentNoteId = 0
  /\ pageTitle = Str_AllNotes
  /\ notesList = <<>>
  /\ sidebarTags = {}
  /\ noteTitle = <<>>
  /\ noteContent = <<>>
  /\ noteTags = <<>>
  /\ searchInput = <<>>
  /\ toast = <<>>
  /\ restoreTimer = <<>>
  /\ fetched = FALSE
  /\ rendered = FALSE
  /\ listeners = FALSE
  /\ lastCall = <<>>

Init ==
  /\ remote \in InitialCollections
  /\ nextId = Len(remote) + 1
  /\ session \in BOOLEAN
  /\ now = 0
  /\ draft = <<>>
  /\ page = "index"
  /\ InitDocument


\* ------------------------------------------------------- ui.js: the editor
\* showNoteDetail(note).  getDocument("note-tags") is called without a
\* selector type and returns null, so the hidden tags input keeps its value.
showNoteDetail(note) ==
  /\ currentNoteId' = note.id
  /\ noteTitle' = Trim(note.title)
  /\ noteContent' = note.content
  /\ noteTags' = noteTags

\* clearNoteDetail()
clearNoteDetail ==
  /\ currentNoteId' = 0
  /\ noteTitle' = Str_SelectANote
  /\ noteContent' = <<>>
  /\ noteTags' = <<>>

editorVars == <<currentNoteId, noteTitle, noteContent, noteTags>>

\* ------------------------------------------------------ page load and init
PageOf(url) ==
  CASE url \in {"auth/login.html", "auth/login.html?error=oauth_session_failed"}
         -> "login"
    [] url = "settings.html" -> "settings"
    [] OTHER -> "index"

\* account.get() inside getCurrentUser: any failure yields null
getCurrentUser(hasSession, netOk) ==
  IF hasSession /\ netOk THEN "user" ELSE "null"

\* The browser loads the page window.location.href names, or reloads the
\* current one; dt hours have passed.  sessionStorage survives.
PageLoad(dt) ==
  /\ now + dt <= MaxNow
  /\ now' = now + dt
  /\ page' = IF href # "" THEN PageOf(href) ELSE page
  /\ FreshDocument
  /\ UNCHANGED <<remote, nextId, session, draft>>

\* restoreDraft() with the age test off by one: a draft of exactly 24 hours
\* is dropped
restoreDraft_DropsAtLimit(cache) ==
  LET Drop == /\ draft' = <<>>
              /\ restoreTimer' = <<>>
              /\ toast' = toast
              /\ UNCHANGED editorVars
  IN IF draft = <<>>
     THEN UNCHANGED <<draft, restoreTimer, toast, editorVars>>
     ELSE LET d == draft[1]
              hoursDiff == now - d.timestamp
          IN IF hoursDiff >= DraftMaxHours THEN Drop
             ELSE IF ~HasNote(cache, d.noteId) THEN Drop
             ELSE LET note == FindNote(cache, d.noteId)
                      hasChanges ==
                        \/ d.title # note.title
                        \/ d.content # note.content
                        \/ d.tags # JoinTags(note.tags)
                  IN IF hasChanges
                     THEN /\ toast' = Toast("info", "none")
                          /\ showNoteDetail(note)
                          /\ restoreTimer' = <<d>>
                          /\ draft' = draft
                     ELSE Drop

\* restoreDraft(), on the cache init has just loaded
restoreDraft(cache) ==
  LET Drop == /\ draft' = <<>>
              /\ restoreTimer' = <<>>
              /\ toast' = toast
              /\ UNCHANGED editorVars
  IN IF draft = <<>>
     THEN UNCHANGED <<draft, restoreTimer, toast, editorVars>>
     ELSE LET d == draft[1]
              hoursDiff == now - d.timestamp
          IN IF hoursDiff > DraftMaxHours THEN Drop
             ELSE IF ~HasNote(cache, d.noteId) THEN Drop
             ELSE LET note == FindNote(cache, d.noteId)
                      hasChanges ==
                        \/ d.title # note.title
                        \/ d.content # note.content
                        \/ d.tags # JoinTags(note.tags)
                  IN IF hasChanges
                     THEN /\ toast' = Toast("info", "none")
                          /\ showNoteDetail(note)
                          /\ restoreTimer' = <<d>>
                          /\ draft' = draft
                     ELSE Drop

\* init() of the notes page without the return after the redirect to the
\* login page: init goes on to load the notes
InitCheckUser_NoReturn(oauth, netOk) ==
  /\ page = "index" /\ pc = "start" /\ href = ""
  /\ IF oauth = "failed"
     THEN /\ href' = "auth/login.html?error=oauth_session_failed"
          /\ pc' = "redirected"
          /\ UNCHANGED <<session, currentUser>>
     ELSE /\ session' = (session \/ oauth = "ok")
          /\ currentUser' = getCurrentUser(session', netOk)
          /\ href' = IF currentUser' = "null" THEN "auth/login.html" ELSE href
          /\ pc' = "checked"
  /\ UNCHANGED <<remote, nextId, now, draft, page, notesCache, currentView,
                 modalCallback, editorVars, pageTitle, notesList, sidebarTags,
                 searchInput, toast, restoreTimer, loadVars, lastCall>>

\* init() of the notes page up to the user check
InitCheckUser(oauth, netOk) ==
  /\ page = "index" /\ pc = "start" /\ href = ""
  /\ IF oauth = "failed"
     THEN /\ href' = "auth/login.html?error=oauth_session_failed"
          /\ pc' = "redirected"
          /\ UNCHANGED <<session, currentUser>>
     ELSE /\ session' = (session \/ oauth = "ok")
          /\ currentUser' = getCurrentUser(session', netOk)
          /\ IF currentUser' = "null"
             THEN href' = "auth/login.html" /\ pc' = "redirected"
             ELSE href' = href /\ pc' = "checked"
  /\ UNCHANGED <<remote, nextId, now, draft, page, notesCache, currentView,
                 modalCallback, editorVars, pageTitle, notesList, sidebarTags,
                 searchInput, toast, restoreTimer, loadVars, lastCall>>

\* init() of the notes page from getAllNotes on
InitLoadNotes(ok) ==
  /\ page = "index" /\ pc = "checked"
  /\ fetched' = TRUE
  /\ lastCall' = Call("getAllNotes", 0, FALSE, ok)
  /\ notesCache' = getAllNotes(remote, ok)
  /\ notesList' = renderAllNotes(Active(notesCache'), pageTitle)
  /\ rendered' = TRUE
  /\ sidebarTags' = getAllTags(notesCache')
  /\ listeners' = TRUE
  /\ restoreDraft(notesCache')
  /\ pc' = "ready"
  /\ UNCHANGED <<backendVars, now, page, href, currentUser, currentView,
                 modalCallback, pageTitle, searchInput>>

\* init() of the settings page up to the user check
SettingsInitCheckUser(netOk) ==
  /\ page = "settings" /\ pc = "start" /\ href = ""
  /\ currentUser' = getCurrentUser(session, netOk)
  /\ IF currentUser' = "null"
     THEN href' = "auth/login.html" /\ pc' = "redirected"
     ELSE href' = href /\ pc' = "checked"
  /\ UNCHANGED <<backendVars, now, draft, page, notesCache, currentView,
                 modalCallback, editorVars, pageTitle, notesList, sidebarTags,
                 searchInput, toast, restoreTimer, loadVars, lastCall>>

\* init() of the settings page: loadAndDisplayTags, setupEventListeners
SettingsInitLoad(ok) ==
  /\ page = "settings" /\ pc = "checked"
  /\ fetched' = TRUE
  /\ lastCall' = Call("getAllNotes", 0, FALSE, ok)
  /\ sidebarTags' = getAllTags(getAllNotes(remote, ok))
  /\ rendered' = TRUE
  /\ listeners' = TRUE
  /\ pc' = "ready"
  /\ UNCHANGED <<backendVars, now, draft, page, href, currentUser, notesCache,
                 currentView, modalCallback, editorVars, pageTitle, notesList,
                 searchInput, toast, restoreTimer>>

\* settings page: handleLogout.  logout() catches a failure and returns
\* false, so the success toast and the redirect follow either way.
HandleLogout(ok) ==
  /\ page = "settings" /\ pc = "ready" /\ href = ""
  /\ lastCall' = Call("logout", 0, FALSE, ok)
  /\ session' = (session /\ ~ok)
  /\ toast' = Toast("success", "none")
  /\ href' = "auth/login.html"
  /\ UNCHANGED <<remote, nextId, now, draft, page, pc, currentUser, notesCache,
                 currentView, modalCallback, editorVars, pageTitle, notesList,
                 sidebarTags, searchInput, restoreTimer, loadVars>>

\* settings page: handleKeyboardNav, Escape goes back to the notes page
SettingsEscape ==
  /\ page = "settings" /\ pc = "ready" /\ href = ""
  /\ href' = "index.html"
  /\ lastCall' = <<>>
  /\ UNCHANGED <<backendVars, now, draft, page, pc, currentUser, notesCache,
                 currentView, modalCallback, editorVars, pageTitle, notesList,
                 sidebarTags, searchInput, toast, restoreTimer, loadVars>>

\* login page: the login form's submit handler
LoginSubmit(ok) ==
  /\ page = "login" /\ href = ""
  /\ lastCall' = Call("login", 0, FALSE, ok)
  /\ session' = (session \/ ok)
  /\ href' = IF ok THEN "../index.html" ELSE href
  /\ UNCHANGED <<remote, nextId, now, draft, page, pc, currentUser, notesCache,
                 currentView, modalCallback, editorVars, pageTitle, notesList,
                 sidebarTags, searchInput, toast, restoreTimer, loadVars>>


\* ------------------------------------------------ notes page: the handlers
\* The listeners are attached and the page is not being left.
Ready == page = "index" /\ pc = "ready" /\ href = ""
\* The modal overlay covers the page while a modal is open (a click outside
\* the dialog lands on the overlay and closes it; handleKeyboardNav ignores
\* the arrows and Ctrl+Enter while isModalOpen).
ModalClosed == modalCallback = <<>>

pageVars == <<page, pc, href, currentUser>>

\* handleDraftAutoSave(), on the editor values given
handleDraftAutoSave(noteId, title, content, tagsText) ==
  IF noteId = 0 THEN draft
  ELSE <<[noteId |-> noteId, title |-> title, content |-> content,
          tags |-> tagsText, timestamp |-> now]>>

\* input event of #note-title
TypeTitle(text) ==
  /\ Ready /\ ModalClosed
  /\ lastCall' = <<>>
  /\ noteTitle' = text
  /\ draft' = handleDraftAutoSave(currentNoteId, text, noteContent, noteTags)
  /\ UNCHANGED <<backendVars, now, pageVars, notesCache, currentView,
                 modalCallback, currentNoteId, pageTitle, notesList, sidebarTags,
                 noteContent, noteTags, searchInput, toast, restoreTimer, loadVars>>

\* input event of #note-content
TypeContent(text) ==
  /\ Ready /\ ModalClosed
  /\ lastCall' = <<>>
  /\ noteContent' = text
  /\ draft' = handleDraftAutoSave(currentNoteId, noteTitle, text, noteTags)
  /\ UNCHANGED <<backendVars, now, pageVars, notesCache, currentView,
                 modalCallback, currentNoteId, pageTitle, notesList, sidebarTags,
                 noteTitle, noteTags, searchInput, toast, restoreTimer, loadVars>>

\* toggleTag(tag): getSelectedTags, setSelectedTags (which auto-saves the draft)
toggleTag(tag) ==
  /\ Ready /\ ModalClosed
  /\ lastCall' = <<>>
  /\ LET selectedTags == ParseTags(noteTags)
         Other(t) == t # tag
         toggled == IF tag \in Range(selectedTags)
                    THEN SelectSeq(selectedTags, Other)
                    ELSE Append(selectedTags, tag)
     IN /\ noteTags' = JoinTags(toggled)
        /\ draft' = handleDraftAutoSave(currentNoteId, noteTitle, noteContent, noteTags')
  /\ UNCHANGED <<backendVars, now, pageVars, notesCache, currentView,
                 modalCallback, currentNoteId, pageTitle, notesList, sidebarTags,
                 noteTitle, noteContent, searchInput, toast, restoreTimer, loadVars>>

\* The callback of restoreDraft's setTimeout writes the draft into the editor
RestoreDraftTimer ==
  /\ page = "index" /\ restoreTimer # <<>>
  /\ lastCall' = <<>>
  /\ noteTitle' = restoreTimer[1].title
  /\ noteContent' = restoreTimer[1].content
  /\ noteTags' = restoreTimer[1].tags
  /\ restoreTimer' = <<>>
  /\ UNCHANGED <<backendVars, now, draft, pageVars, notesCache, currentView,
                 modalCallback, currentNoteId, pageTitle, notesList, sidebarTags,
                 searchInput, toast, loadVars>>

\* handleCreateNote()
HandleCreateNote(ok) ==
  /\ Ready /\ ModalClosed
  /\ ok => nextId <= MaxId
  /\ lastCall' = Call("createNote", IF ok THEN nextId ELSE 0, FALSE, ok)
  /\ IF ok
     THEN LET newNote == createNote(nextId, [title |-> <<>>, content |-> <<>>,
                                             tags |-> <<>>, archived |-> FALSE])
          IN /\ remote' = <<newNote>> \o remote
             /\ nextId' = nextId + 1
             /\ notesCache' = <<newNote>> \o notesCache
             /\ notesList' = renderAllNotes(Active(notesCache'), pageTitle)
             /\ showNoteDetail(newNote)
             /\ toast' = Toast("success", "none")
     ELSE /\ toast' = Toast("error", "none")
          /\ UNCHANGED <<remote, nextId, notesCache, notesList, editorVars>>
  /\ UNCHANGED <<session, now, draft, pageVars, currentView, modalCallback,
                 pageTitle, sidebarTags, searchInput, restoreTimer, loadVars>>

\* handleSaveNote() with clearDraft() moved out of the try block: the draft is
\* cleared whether or not the save succeeded
HandleSaveNote_ClearsDraftAlways(ok) ==
  /\ Ready /\ ModalClosed
  /\ currentNoteId # 0
  /\ ok => HasNote(remote, currentNoteId)
  /\ lastCall' = Call("updateNote", currentNoteId, FALSE, ok)
  /\ draft' = <<>>
  /\ IF ok
     THEN LET tags == ParseTags(noteTags)
              docs == updateNote(remote, currentNoteId, noteTitle, noteContent, tags)
              updatedNote == FindNote(docs, currentNoteId)
          IN /\ remote' = docs
             /\ notesCache' =
                  [i \in 1..Len(notesCache) |->
                     IF notesCache[i].id = currentNoteId THEN updatedNote
                     ELSE notesCache[i]]
             /\ notesList' = renderAllNotes(Active(notesCache'), pageTitle)
             /\ sidebarTags' = getAllTags(notesCache')
             /\ toast' = Toast("success", "none")
     ELSE /\ toast' = Toast("error", "none")
          /\ UNCHANGED <<remote, notesCache, notesList, sidebarTags>>
  /\ UNCHANGED <<nextId, session, now, pageVars, currentView, modalCallback,
                 editorVars, pageTitle, searchInput, restoreTimer, loadVars>>

\* handleSaveNote()
HandleSaveNote(ok) ==
  /\ Ready /\ ModalClosed
  /\ currentNoteId # 0
  /\ ok => HasNote(remote, currentNoteId)
  /\ lastCall' = Call("updateNote", currentNoteId, FALSE, ok)
  /\ IF ok
     THEN LET tags == ParseTags(noteTags)
              docs == updateNote(remote, currentNoteId, noteTitle, noteContent, tags)
              updatedNote == FindNote(docs, currentNoteId)
          IN /\ remote' = docs
             /\ notesCache' =
                  [i \in 1..Len(notesCache) |->
                     IF notesCache[i].id = currentNoteId THEN updatedNote
                     ELSE notesCache[i]]
             /\ notesList' = renderAllNotes(Active(notesCache'), pageTitle)
             /\ sidebarTags' = getAllTags(notesCache')
             /\ draft' = <<>>
             /\ toast' = Toast("success", "none")
     ELSE /\ toast' = Toast("error", "none")
          /\ UNCHANGED <<remote, notesCache, notesList, sidebarTags, draft>>
  /\ UNCHANGED <<nextId, session, now, pageVars, currentView, modalCallback,
                 editorVars, pageTitle, searchInput, restoreTimer, loadVars>>

\* handleCancel(): showNoteDetail of the cached note, then handleMobileBack,
\* which calls ui.clearCurrentNoteId()
HandleCancel ==
  /\ Ready /\ ModalClosed
  /\ currentNoteId # 0
  /\ lastCall' = <<>>
  /\ IF HasNote(notesCache, currentNoteId)
     THEN LET note == FindNote(notesCache, currentNoteId)
          IN /\ noteTitle' = Trim(note.title)
             /\ noteContent' = note.content
     ELSE UNCHANGED <<noteTitle, noteContent>>
  /\ currentNoteId' = 0
  /\ UNCHANGED <<backendVars, now, draft, pageVars, notesCache, currentView,
                 modalCallback, pageTitle, notesList, sidebarTags, noteTags,
                 searchInput, toast, restoreTimer, loadVars>>

\* handleNoteClick(e) on a rendered card
HandleNoteClick(noteId) ==
  /\ Ready /\ ModalClosed
  /\ noteId \in Range(notesList)
  /\ HasNote(notesCache, noteId)
  /\ lastCall' = <<>>
  /\ showNoteDetail(FindNote(notesCache, noteId))
  /\ UNCHANGED <<backendVars, now, draft, pageVars, notesCache, currentView,
                 modalCallback, pageTitle, notesList, sidebarTags, searchInput,
                 toast, restoreTimer, loadVars>>


\* The list of the current view, as performArchive and performDelete render it
renderCurrentView(cache, view, title) ==
  IF view = "archived"
  THEN renderAllNotes(Archived(cache), title)
  ELSE renderAllNotes(Active(cache), title)

\* performArchive(noteId, archive), with the outcome of appwrite.archiveNote
performArchive(noteId, archive, ok) ==
  /\ lastCall' = Call("archiveNote", noteId, archive, ok)
  /\ IF ok
     THEN /\ remote' = archiveNote(remote, noteId, archive)
          /\ notesCache' =
               [i \in 1..Len(notesCache) |->
                  IF notesCache[i].id = noteId
                  THEN [notesCache[i] EXCEPT !.archived = archive]
                  ELSE notesCache[i]]
          /\ notesList' = renderCurrentView(notesCache', currentView, pageTitle)
          /\ clearNoteDetail
          /\ toast' = IF archive
                      THEN Toast("success", "Archived Notes")
                      ELSE Toast("success", "All Notes")
     ELSE /\ toast' = Toast("error", "none")
          /\ UNCHANGED <<remote, notesCache, notesList, editorVars>>

\* performDelete(noteId), with the outcome of appwrite.deleteNote
performDelete(noteId, ok) ==
  /\ lastCall' = Call("deleteNote", noteId, FALSE, ok)
  /\ IF ok
     THEN /\ remote' = deleteNote(remote, noteId)
          /\ notesCache' = deleteNote(notesCache, noteId)
          /\ notesList' = renderCurrentView(notesCache', currentView, pageTitle)
          /\ sidebarTags' = getAllTags(notesCache')
          /\ clearNoteDetail
          /\ toast' = Toast("success", "none")
     ELSE /\ toast' = Toast("error", "none")
          /\ UNCHANGED <<remote, notesCache, notesList, sidebarTags, editorVars>>

\* handleArchiveNote(): a modal before archiving, none before restoring
HandleArchiveNote(ok) ==
  /\ Ready /\ ModalClosed
  /\ currentNoteId # 0
  /\ HasNote(notesCache, currentNoteId)
  /\ ok => HasNote(remote, currentNoteId)
  /\ LET note == FindNote(notesCache, currentNoteId)
         isArchiving == ~note.archived
     IN IF isArchiving
        THEN /\ modalCallback' = <<[kind |-> "archive", noteId |-> currentNoteId]>>
             /\ lastCall' = <<>>
             /\ UNCHANGED <<remote, notesCache, notesList, editorVars, toast>>
        ELSE /\ performArchive(currentNoteId, FALSE, ok)
             /\ UNCHANGED modalCallback
  /\ UNCHANGED <<nextId, session, now, draft, pageVars, currentView, pageTitle,
                 sidebarTags, searchInput, restoreTimer, loadVars>>

\* handleDeleteNote() that deletes at once, without the confirmation modal
HandleDeleteNote_NoModal ==
  /\ Ready /\ ModalClosed
  /\ currentNoteId # 0
  /\ \E ok \in BOOLEAN :
       /\ ok => HasNote(remote, currentNoteId)
       /\ performDelete(currentNoteId, ok)
  /\ UNCHANGED <<nextId, session, now, draft, pageVars, currentView,
                 modalCallback, pageTitle, searchInput, restoreTimer, loadVars>>

\* handleDeleteNote(): always a modal
HandleDeleteNote ==
  /\ Ready /\ ModalClosed
  /\ currentNoteId # 0
  /\ lastCall' = <<>>
  /\ modalCallback' = <<[kind |-> "delete", noteId |-> currentNoteId]>>
  /\ UNCHANGED <<backendVars, now, draft, pageVars, notesCache, currentView,
                 editorVars, domVars, toast, restoreTimer, loadVars>>

\* handleModalConfirm(): run modalCallback, then closeModal
HandleModalConfirm(ok) ==
  /\ Ready /\ modalCallback # <<>>
  /\ ok => HasNote(remote, modalCallback[1].noteId)
  /\ IF modalCallback[1].kind = "delete"
     THEN performDelete(modalCallback[1].noteId, ok)
     ELSE /\ performArchive(modalCallback[1].noteId, TRUE, ok)
          /\ UNCHANGED sidebarTags
  /\ modalCallback' = <<>>
  /\ UNCHANGED <<nextId, session, now, draft, pageVars, currentView, pageTitle,
                 searchInput, restoreTimer, loadVars>>

\* closeModal(): the cancel button, Escape, or a click on the overlay
closeModal ==
  /\ Ready /\ modalCallback # <<>>
  /\ lastCall' = <<>>
  /\ modalCallback' = <<>>
  /\ UNCHANGED <<backendVars, now, draft, pageVars, notesCache, currentView,
                 editorVars, domVars, toast, restoreTimer, loadVars>>


\* handleSearch(e): the desktop search box
HandleSearch(text) ==
  /\ Ready /\ ModalClosed
  /\ lastCall' = <<>>
  /\ searchInput' = text
  /\ LET query == Trim(text)
     IN IF query = <<>>
        THEN /\ pageTitle' = IF currentView = "archived"
                             THEN Str_ArchivedNotes ELSE Str_AllNotes
             /\ notesList' =
                  renderAllNotes(IF currentView = "archived"
                                 THEN Archived(notesCache)
                                 ELSE Active(notesCache), pageTitle')
        ELSE /\ pageTitle' = Str_ShowingResultsFor \o query
             /\ notesList' =
                  renderAllNotes(Active(searchNotes(notesCache, query)), pageTitle')
  /\ UNCHANGED <<backendVars, now, draft, pageVars, notesCache, currentView,
                 modalCallback, editorVars, sidebarTags, toast, restoreTimer,
                 loadVars>>

\* handleTagClick(e) on a tag of the sidebar: the list is rendered before
\* the page title is changed
HandleTagClick(tag) ==
  /\ Ready /\ ModalClosed
  /\ tag \in sidebarTags
  /\ lastCall' = <<>>
  /\ notesList' = renderAllNotes(Active(filterByTag(notesCache, tag)), pageTitle)
  /\ pageTitle' = Str_NotesTagged \o tag
  /\ UNCHANGED <<backendVars, now, draft, pageVars, notesCache, currentView,
                 modalCallback, editorVars, sidebarTags, searchInput, toast,
                 restoreTimer, loadVars>>

\* handleViewAllNotes() and the "all-notes" case of handleNavClick
viewAllNotes ==
  /\ currentView' = "all-notes"
  /\ pageTitle' = Str_AllNotes
  /\ notesList' = renderAllNotes(Active(notesCache), pageTitle')
  /\ clearNoteDetail

\* handleViewArchived() and the "archived" case of handleNavClick
viewArchived ==
  /\ currentView' = "archived"
  /\ pageTitle' = Str_ArchivedNotes
  /\ notesList' = renderAllNotes(Archived(notesCache), pageTitle')
  /\ clearNoteDetail

NavPages == {"all-notes", "archived", "settings"}

\* handleNavClick(e) on a [data-page] item of the desktop sidebar (the items
\* "search" and "tags" belong to the mobile bottom bar and its views, which
\* the desktop layout does not show); the settings button sets the same
\* location as the "settings" item
HandleNavClick(target) ==
  /\ Ready /\ ModalClosed
  /\ lastCall' = <<>>
  /\ searchInput' = <<>>
  /\ CASE target = "all-notes" -> viewAllNotes /\ UNCHANGED href
       [] target = "archived" -> viewArchived /\ UNCHANGED href
       [] OTHER ->
            /\ href' = "settings.html"
            /\ UNCHANGED <<currentView, pageTitle, notesList, editorVars>>
  /\ UNCHANGED <<backendVars, now, draft, page, pc, currentUser, notesCache,
                 modalCallback, sidebarTags, toast, restoreTimer, loadVars>>

\* The action link of the archive/restore toast
ToastAction ==
  /\ Ready /\ ModalClosed
  /\ toast # <<>> /\ toast[1].action # "none"
  /\ lastCall' = <<>>
  /\ IF toast[1].action = "Archived Notes" THEN viewArchived ELSE viewAllNotes
  /\ toast' = <<>>
  /\ UNCHANGED <<backendVars, now, draft, pageVars, notesCache, modalCallback,
                 sidebarTags, searchInput, restoreTimer, loadVars>>

\* ----------------------------------------------------------- the machines
\* The pages and their init(): notes page, settings page, login page
PageActions ==
  \/ \E oauth \in {"none", "ok", "failed"}, netOk \in BOOLEAN : InitCheckUser(oauth, netOk)
  \/ \E ok \in BOOLEAN : InitLoadNotes(ok)
  \/ \E netOk \in BOOLEAN : SettingsInitCheckUser(netOk)
  \/ \E ok \in BOOLEAN : SettingsInitLoad(ok)
  \/ \E ok \in BOOLEAN : HandleLogout(ok)
  \/ SettingsEscape
  \/ \E ok \in BOOLEAN : LoginSubmit(ok)

\* Create, save, archive, restore and delete, with the modal
NoteActions ==
  \/ \E ok \in BOOLEAN : HandleCreateNote(ok)
  \/ \E ok \in BOOLEAN : HandleSaveNote(ok)
  \/ \E noteId \in 1..MaxId : HandleNoteClick(noteId)
  \/ \E ok \in BOOLEAN : HandleArchiveNote(ok)
  \/ HandleDeleteNote
  \/ \E ok \in BOOLEAN : HandleModalConfirm(ok)
  \/ closeModal

\* Views, search and tag filter
ViewActions ==
  \/ HandleCancel
  \/ \E text \in Queries : HandleSearch(text)
  \/ \E tag \in sidebarTags : HandleTagClick(tag)
  \/ \E target \in NavPages : HandleNavClick(target)
  \/ ToastAction

\* Typing in the editor, the draft it leaves, and its restoration
DraftActions ==
  \/ \E text \in TitleTexts : TypeTitle(text)
  \/ \E text \in ContentTexts : TypeContent(text)
  \/ \E tag \in TagNames : toggleTag(tag)
  \/ RestoreDraftTimer

\* Spec: the user browses, creates, saves, archives, deletes, searches and
\* moves between the pages, without typing; pages are reloaded at once.
Next == PageLoad(0) \/ PageActions \/ NoteActions \/ ViewActions

Spec == Init /\ [][Next]_vars

\* SpecDraft: the user edits the note of the notes page in the one view,
\* saves, archives, restores and deletes it, and comes back to the page hours
\* later; every attempt to create a note is rejected.
InitDraft ==
  /\ remote = DraftSeed
  /\ nextId = Len(remote) + 1
  /\ session = TRUE
  /\ now = 0
  /\ draft = <<>>
  /\ page = "index"
  /\ InitDocument

NextDraft ==
  \/ \E dt \in ElapsedHours : PageLoad(dt)
  \/ \E netOk \in BOOLEAN : InitCheckUser("none", netOk)
  \/ \E ok \in BOOLEAN : InitLoadNotes(ok)
  \/ LoginSubmit(TRUE)
  \/ HandleCreateNote(FALSE)
  \/ \E ok \in BOOLEAN : HandleSaveNote(ok)
  \/ \E noteId \in 1..MaxId : HandleNoteClick(noteId)
  \/ \E ok \in BOOLEAN : HandleArchiveNote(ok)
  \/ HandleDeleteNote
  \/ \E ok \in BOOLEAN : HandleModalConfirm(ok)
  \/ closeModal
  \/ DraftActions

SpecDraft == InitDraft /\ [][NextDraft]_vars

\* SpecLoad: the notes page is opened on collections of every size up to
\* MaxRemote.
InitLoad ==
  /\ \E n \in 0..MaxRemote : remote = BigCollection(n) /\ nextId = n + 1
  /\ session = TRUE
  /\ now = 0
  /\ draft = <<>>
  /\ page = "index"
  /\ InitDocument

NextLoad ==
  \/ PageLoad(0)
  \/ \E netOk \in BOOLEAN : InitCheckUser("none", netOk)
  \/ \E ok \in BOOLEAN : InitLoadNotes(ok)
  \/ LoginSubmit(TRUE)

SpecLoad == InitLoad /\ [][NextLoad]_vars

\* SpecPages: the user moves between the notes page, the settings page and
\* the login page, and between the views of the notes page.
NextPages ==
  \/ PageLoad(0)
  \/ PageActions
  \/ HandleCancel
  \/ \E text \in Queries : HandleSearch(text)
  \/ \E tag \in sidebarTags : HandleTagClick(tag)
  \/ \E target \in NavPages : HandleNavClick(target)
  \/ \E noteId \in 1..MaxId : HandleNoteClick(noteId)

SpecPages == Init /\ [][NextPages]_vars


\* SpecModal: the user opens notes in both views and archives, restores and
\* deletes them through the modal.
NextModal ==
  \/ PageLoad(0)
  \/ \E netOk \in BOOLEAN : InitCheckUser("none", netOk)
  \/ \E ok \in BOOLEAN : InitLoadNotes(ok)
  \/ LoginSubmit(TRUE)
  \/ \E noteId \in 1..MaxId : HandleNoteClick(noteId)
  \/ \E ok \in BOOLEAN : HandleArchiveNote(ok)
  \/ HandleDeleteNote
  \/ \E ok \in BOOLEAN : HandleModalConfirm(ok)
  \/ closeModal
  \/ \E target \in {"all-notes", "archived"} : HandleNavClick(target)

SpecModal == Init /\ [][NextModal]_vars

\* ------------------------------------------------- authService.js: sign-up
\* login(email, password): createEmailPasswordSession; a rejection is caught
\* and reported in the result
login(sessionOk) == [success |-> sessionOk, session |-> sessionOk]

\* signUp(email, password): account.create, then await login(...), whose
\* result is not looked at
signUp(createOk, sessionOk) ==
  IF createOk
  THEN LET result == login(sessionOk)
       IN [success |-> TRUE, session |-> result.session]
  ELSE [success |-> FALSE, session |-> FALSE]

\* sign-up page: the submit handler of initSignupForm, on a valid form
SignupSubmit(createOk, sessionOk) ==
  /\ page = "signup" /\ href = ""
  /\ LET result == signUp(createOk, sessionOk)
     IN /\ lastCall' = Call("signUp", 0, FALSE, result.success)
        /\ session' = (session \/ result.session)
        /\ href' = IF result.success THEN "../index.html" ELSE href
  /\ UNCHANGED <<remote, nextId, now, draft, page, pc, currentUser, notesCache,
                 currentView, modalCallback, editorVars, pageTitle, notesList,
                 sidebarTags, searchInput, toast, restoreTimer, loadVars>>

\* SpecSignup: a visitor without a session opens the sign-up page, signs up
\* and is sent to the notes page.
InitSignup ==
  /\ remote \in InitialCollections
  /\ nextId = Len(remote) + 1
  /\ session = FALSE
  /\ now = 0
  /\ draft = <<>>
  /\ page = "signup"
  /\ InitDocument

NextSignup ==
  \/ \E createOk \in BOOLEAN, sessionOk \in BOOLEAN : SignupSubmit(createOk, sessionOk)
  \/ NextPages

SpecSignup == InitSignup /\ [][NextSignup]_vars

\* ------------------------------------------------------- ui.js: the import
Str_AllExist == "All notes already exist (no duplicates imported)"
Str_NoValidNotes == "No valid notes found in file"
Str_Imported == "Imported new note(s)"
\* showToast(message, type) of the import, which the claims tell apart by
\* the message
ToastMsg(type, message) ==
  <<[type |-> type, action |-> "none", message |-> message]>>

\* window.notesCache || []: the notes page keeps its cache in the
\* module-scoped let notesCache and nothing assigns window.notesCache, so
\* the property is undefined
windowNotesCache == <<>>

\* The files the user picks: arrays of objects; valid stands for the schema
\* check of the handler (title, content, tags, archived, createdAt,
\* updatedAt of the expected types)
ImportFiles ==
  { << [id |-> 1, title |-> Str_Archived, content |-> <<"a", "B">>,
        tags |-> << <<"x">> >>, archived |-> FALSE, valid |-> TRUE] >>,
    << [id |-> 9, title |-> <<"b">>, content |-> <<>>,
        tags |-> <<>>, archived |-> FALSE, valid |-> TRUE] >>,
    << [id |-> 9, title |-> <<"b">>, content |-> <<>>,
        tags |-> <<>>, archived |-> FALSE, valid |-> FALSE] >>,
    << [id |-> 2, title |-> <<"b">>, content |-> <<>>,
        tags |-> << <<"X">> >>, archived |-> TRUE, valid |-> TRUE],
       [id |-> 9, title |-> <<"b">>, content |-> <<>>,
        tags |-> <<>>, archived |-> FALSE, valid |-> FALSE] >> }

\* The documents createNote stores for the notes of an import, newest first;
\* oks[i] tells whether the i-th createDocument resolved
RECURSIVE importCreate(_, _, _)
importCreate(notes, oks, id) ==
  IF notes = <<>> THEN <<>>
  ELSE IF Head(oks)
       THEN importCreate(Tail(notes), Tail(oks), id + 1)
              \o <<createNote(id, Head(notes))>>
       ELSE importCreate(Tail(notes), Tail(oks), id)

\* change listener of #import-notes-input, with reader.onload, on a file
\* that parses as an array
ImportNotes(file, oks) ==
  /\ Ready /\ ModalClosed
  /\ LET IsValid(note) == note.valid
         validNotes == SelectSeq(file, IsValid)
         existingNotes == windowNotesCache
         existingIds == Range(IdsOf(existingNotes))
         IsNew(note) == note.id \notin existingIds
         newNotes == SelectSeq(validNotes, IsNew)
         created == importCreate(newNotes, SubSeq(oks, 1, Len(newNotes)), nextId)
     IN IF validNotes = <<>>
        THEN /\ toast' = ToastMsg("error", Str_NoValidNotes)
             /\ lastCall' = <<>>
             /\ UNCHANGED <<remote, nextId, href>>
        ELSE IF newNotes = <<>>
        THEN /\ toast' = ToastMsg("info", Str_AllExist)
             /\ lastCall' = <<>>
             /\ UNCHANGED <<remote, nextId, href>>
        ELSE /\ nextId + Len(newNotes) - 1 <= MaxId
             /\ remote' = created \o remote
             /\ nextId' = nextId + Len(created)
             /\ lastCall' = Call("createNote", 0, FALSE, created # <<>>)
             /\ toast' = ToastMsg("success", Str_Imported)
             /\ href' = "index.html"
  /\ UNCHANGED <<session, now, draft, page, pc, currentUser, notesCache,
                 currentView, modalCallback, editorVars, pageTitle, notesList,
                 sidebarTags, searchInput, restoreTimer, loadVars>>

\* SpecImport: the user of the notes page imports files, opens and deletes
\* notes and changes the view.
NextImport ==
  \/ PageLoad(0)
  \/ \E netOk \in BOOLEAN : InitCheckUser("none", netOk)
  \/ \E ok \in BOOLEAN : InitLoadNotes(ok)
  \/ LoginSubmit(TRUE)
  \/ \E file \in ImportFiles :
       \E oks \in [1..Len(file) -> BOOLEAN] : ImportNotes(file, oks)
  \/ \E noteId \in 1..MaxId : HandleNoteClick(noteId)
  \/ HandleDeleteNote
  \/ \E ok \in BOOLEAN : HandleModalConfirm(ok)
  \/ closeModal
  \/ \E target \in {"all-notes", "archived"} : HandleNavClick(target)

SpecImport == Init /\ [][NextImport]_vars

\* ---------------------------------------------------- what the claims state
\* The remote calls that write: create, save, archive/restore and delete
WriteOps == {"createNote", "updateNote", "archiveNote", "deleteNote"}
\* The step just taken made a remote call of ops, and the call resolved
Resolved(ops) == lastCall # <<>> /\ lastCall[1].ok /\ lastCall[1].op \in ops
\* The step just taken made a remote call of ops, and the call rejected
Rejected(ops) == lastCall # <<>> /\ ~lastCall[1].ok /\ lastCall[1].op \in ops
\* The error toast is on screen
ErrorToast == toast # <<>> /\ toast[1].type = "error"
\* The cards of the notes of a view
ViewNotes(cache, view) ==
  IdsOf(IF view = "archived" THEN Archived(cache) ELSE Active(cache))
\* Neither a search query nor a tag filter is active
NoFilter ==
  Trim(searchInput) = <<>> /\ pageTitle \in {Str_AllNotes, Str_ArchivedNotes}

\* C1: on the notes page, after every create, save, archive/restore and
\* delete that resolves, notesCache holds exactly the notes of the remote
\* collection: the same ids and, for each id, the same title, content, tags
\* and archived flag (actions one at a time, a single client, at most 100
\* notes at load).
C1_CacheInSync ==
  (page = "index" /\ Resolved(WriteOps)) =>
    /\ Len(notesCache) = Len(remote)
    /\ Range(notesCache) = Range(remote)

\* C8: whenever a remote call made by the notes page rejects (the load of
\* the notes at start-up, create, save, archive/restore, delete), an error
\* toast is shown.
C8_ErrorToastOnReject ==
  (page = "index" /\ Rejected(WriteOps \cup {"getAllNotes"})) => ErrorToast

\* C9: after init completed for a logged-in user and the fetch succeeded,
\* notesCache contains every note of the remote collection, however many
\* notes the collection holds.
C9_CacheHoldsAllNotes ==
  (page = "index" /\ pc = "ready" /\ currentUser = "user"
     /\ Resolved({"getAllNotes"})) =>
    Range(remote) \subseteq Range(notesCache)


\* C5: after every create, save, archive/restore, delete and navigation
\* action performed while no search query or tag filter is active, the notes
\* list shows exactly the cached notes of the current view: the archived
\* notes in the view "archived", the non-archived notes in "all-notes".
C5_ListShowsCurrentView ==
  [][ (/\ Ready /\ NoFilter
       /\ \/ Resolved(WriteOps)'
          \/ \E target \in {"all-notes", "archived"} : HandleNavClick(target)
          \/ ToastAction)
      => notesList' = ViewNotes(notesCache', currentView') ]_vars

\* C6: for every non-empty trimmed query q typed into the desktop search
\* box the notes list shows exactly the non-archived cached notes whose
\* title, content or one of whose tags contains q ignoring case; with an
\* empty query it shows the notes of the current view.
C6_SearchShowsMatches ==
  [][ (\E text \in Queries : HandleSearch(text)) =>
        LET q == Trim(searchInput')
            Matches(note) ==
              /\ ~note.archived
              /\ \/ Includes(ToLowerCase(note.title), ToLowerCase(q))
                 \/ Includes(ToLowerCase(note.content), ToLowerCase(q))
                 \/ \E i \in 1..Len(note.tags) :
                      Includes(ToLowerCase(note.tags[i]), ToLowerCase(q))
        IN notesList' = IF q # <<>>
                        THEN IdsOf(SelectSeq(notesCache, Matches))
                        ELSE ViewNotes(notesCache, currentView) ]_vars

\* C7: a click on the sidebar tag t displays exactly the non-archived cached
\* notes whose tags include t, whichever view was active before the click
\* and whatever the text of t.
C7_TagClickShowsTagged ==
  [][ \A tag \in sidebarTags :
        HandleTagClick(tag) =>
          LET Tagged(note) == ~note.archived /\ tag \in Range(note.tags)
          IN notesList' = IdsOf(SelectSeq(notesCache, Tagged)) ]_vars


\* C2: if the remote call of a create, save, archive/restore or delete
\* rejects, then notesCache, currentNoteId and the stored draft are exactly
\* what they were before the action.
C2_RejectLeavesState ==
  [][ Rejected(WriteOps)' => UNCHANGED <<notesCache, currentNoteId, draft>> ]_vars

\* A save was rejected while a note was open and a draft of it was stored
C2_Witness ==
  /\ Rejected({"updateNote"})
  /\ ErrorToast
  /\ currentNoteId # 0
  /\ draft # <<>>
  /\ HasNote(notesCache, currentNoteId)

C11_SignUpLogsIn ==
  (page = "signup" /\ Resolved({"signUp"})) => session


\* C12: an import creates no remote note for a valid note of the file whose
\* id is the id of a note the user already has, and when every valid note
\* of the file already exists nothing is created and the message "All notes
\* already exist (no duplicates imported)" is shown.
C12_ImportSkipsDuplicates ==
  [][ \A file \in ImportFiles :
        \A oks \in [1..Len(file) -> BOOLEAN] :
          ImportNotes(file, oks) =>
            LET Fresh(note) ==
                  note.valid /\ note.id \notin Range(IdsOf(notesCache))
                fresh == SelectSeq(file, Fresh)
                HasValid == \E i \in 1..Len(file) : file[i].valid
            IN /\ Len(remote') - Len(remote) <= Len(fresh)
               /\ (HasValid /\ fresh = <<>>) =>
                    /\ remote' = remote
                    /\ toast' = ToastMsg("info", Str_AllExist) ]_vars

====
